---------------------------- MODULE Spec2Model ----------------------------
(***************************************************************************)
(* A model of variety.js (the schema analyzer with the RowSchema /         *)
(* TableIndex / NestedSchemaSet output).                                   *)
(*                                                                         *)
(* Representation.                                                         *)
(*  - A JavaScript object whose property order matters (`for .. in`,       *)
(*    Object.keys) is an ordered map: a sequence of [key, val] records     *)
(*    with distinct keys, in insertion order.                              *)
(*  - A path or key string is the sequence of its '.'-separated segments:  *)
(*    "a.XX0XX.b" is <<"a", "XX0XX", "b">>.  A parentKey (a path followed  *)
(*    by '.') is the same sequence.  Field names hold no '.'.              *)
(*  - A document value is a record [k |-> kind] with the payload of an     *)
(*    object (f, its fields in order) or of an array (e, its elements).    *)
(*  - JavaScript `undefined` is the string Undefined.                      *)
(***************************************************************************)
EXTENDS Integers, Sequences, FiniteSets, TLC

VARIABLES
    args,                  \* the caller's global variables (`this`): the options supplied
    authorized,            \* whether listDatabases answers with a database list
    server,                \* the state of each database of the server
    coll,                  \* the documents of db[collection], in cursor order
    indexes,               \* db[collection].getIndexes() of the server
    pc,                    \* position of the script
    thrown,                \* the message thrown, or NoThrow
    config,                \* readConfig's result
    cursorOpen,            \* whether the two scan cursors are created
    cursorPos,             \* documents consumed from `cursor`
    cursorterarkPos,       \* documents consumed from `cursorterark`
    interimResults,        \* accumulator of the flat scan
    interimResultsterark,  \* accumulator of the shape-preserving scan
    flattened,             \* serializeDoc's result in the last callback of the flat scan
    docResult,             \* last per-document result of the flat scan
    docResultterark,       \* last per-document result of the shape-preserving scan
    columns,               \* convertSchema's return value (RowSchema)
    nestedschemaset,       \* convertSchema's sink
    originalindex,         \* the index list read at line 532
    tableindex,            \* generateIndex's result
    printed                \* the printed Result Document, or NoOutput

vars == <<args, authorized, server, coll, indexes, pc, thrown, config,
          cursorOpen, cursorPos, cursorterarkPos, interimResults,
          interimResultsterark, flattened, docResult, docResultterark, columns,
          nestedschemaset, originalindex, tableindex, printed>>

Undefined == "undefined"
NoThrow == "none"
NoOutput == "none"

-----------------------------------------------------------------------------
(* Ordered maps (JavaScript objects).                                      *)

EmptyObject == <<>>

Has(o, k) == \E i \in 1..Len(o) : o[i].key = k

Idx(o, k) == CHOOSE i \in 1..Len(o) : o[i].key = k

Get(o, k) == o[Idx(o, k)].val

\* o[k] = v : an existing property keeps its place, a new one goes last.
Put(o, k, v) ==
    IF Has(o, k) THEN [o EXCEPT ![Idx(o, k)].val = v]
    ELSE Append(o, [key |-> k, val |-> v])

\* Object.keys(o)
ObjectKeys(o) == [i \in 1..Len(o) |-> o[i].key]

KeySet(o) == {o[i].key : i \in 1..Len(o)}

\* Array.prototype.toString / join(',') of an array of strings
RECURSIVE JoinComma(_)
JoinComma(s) ==
    IF Len(s) = 0 THEN ""
    ELSE IF Len(s) = 1 THEN s[1]
    ELSE s[1] \o "," \o JoinComma(Tail(s))

-----------------------------------------------------------------------------
(* Document values.                                                        *)

Prim(kind) == [k |-> kind]
Obj(fields) == [k |-> "object", f |-> fields]
Arr(elems) == [k |-> "array", e |-> elems]
Field(key, v) == [key |-> key, val |-> v]

\* The kinds of value of the shell: typeof-primitives, null, undefined, arrays,
\* the BSON wrappers, and keyed records (plain objects and every other wrapper).
PrimKinds == {"undefined", "string", "number", "boolean", "null", "date",
              "long", "oid", "bindata"}

arrayEscape == "XX"

\* The enumeration of `for (var key in document)`: the own properties of an
\* object, the indices of an array, nothing for anything else.
NumChildren(v) ==
    IF v.k = "object" THEN Len(v.f)
    ELSE IF v.k = "array" THEN Len(v.e)
    ELSE 0

ChildKey(v, i) == IF v.k = "object" THEN v.f[i].key ELSE <<ToString(i - 1)>>

ChildVal(v, i) == IF v.k = "object" THEN v.f[i].val ELSE v.e[i]

varietyTypeOf(thing) ==
    IF thing.k = "undefined" THEN "undefined"
    ELSE IF thing.k \in {"string", "number", "boolean"} THEN
        CASE thing.k = "string"  -> "String"
          [] thing.k = "number"  -> "Number"
          [] thing.k = "boolean" -> "Boolean"
    ELSE IF thing.k = "array" THEN "Array"
    ELSE IF thing.k = "null" THEN "null"
    ELSE IF thing.k = "date" THEN "Date"
    ELSE IF thing.k = "long" THEN "NumberLong"
    ELSE IF thing.k = "oid" THEN "ObjectId"
    ELSE IF thing.k = "bindata" THEN "BinData"
    ELSE "Object"

-----------------------------------------------------------------------------
(* Segments that the regular expressions of the script recognise.          *)

\* Largest array index / digit run the modelled values hold.
MaxOrdinal == 1

\* A segment of the form arrayEscape \d+ arrayEscape, such as XX0XX.
IsOrdinal(seg) == \E i \in 0..MaxOrdinal : seg = arrayEscape \o ToString(i) \o arrayEscape

\* A segment of the form \d+.
IsDigits(seg) == \E i \in 0..MaxOrdinal : seg = ToString(i)

\* parentKey.replace(arrayRegex, '.') with arrayRegex = /\.XX\d+XX\./g : a match
\* takes the dots on both sides of an ordinal segment, so the segment right
\* after a removed one has lost its leading dot and is not matched.
RECURSIVE replaceArrayRegex(_, _, _)
replaceArrayRegex(parentKey, i, prevTaken) ==
    IF i > Len(parentKey) THEN <<>>
    ELSE IF i > 1 /\ IsOrdinal(parentKey[i]) /\ ~prevTaken
         THEN replaceArrayRegex(parentKey, i + 1, TRUE)
         ELSE <<parentKey[i]>> \o replaceArrayRegex(parentKey, i + 1, FALSE)

\* key.replace(/\.XX\d+XX/g, '.XX') : every ordinal segment after a dot.
normalizeFlatKey(key) ==
    [i \in 1..Len(key) |-> IF i > 1 /\ IsOrdinal(key[i]) THEN arrayEscape ELSE key[i]]

\* key.replace(/\.\d+/g, '.XX') : every digit segment after a dot.
normalizeShapeKey(key) ==
    [i \in 1..Len(key) |-> IF i > 1 /\ IsDigits(key[i]) THEN "XX" ELSE key[i]]

-----------------------------------------------------------------------------
(* The flat pipeline: serializeDoc, analyseDocument, mergeDocument.        *)

isHash(v) ==
    LET isArray == v.k = "array"
        isObject == v.k \in {"object", "array", "null", "date", "oid", "bindata", "long"}
        specialObject == v.k \in {"date", "oid", "bindata", "long"}
    IN ~specialObject /\ (isArray \/ isObject)

\* The guard of `serialize`: the subtree under parentKey is excluded.
isExcluded(excludeSubkeys, parentKey) ==
    replaceArrayRegex(parentKey, 1, FALSE) \in excludeSubkeys

RECURSIVE serialize(_, _, _, _, _)
RECURSIVE serializeLoop(_, _, _, _, _, _)
\* serialize(document, parentKey, maxDepth), threading the shared `result`.
serialize(result, document, parentKey, maxDepth, excludeSubkeys) ==
    IF isExcluded(excludeSubkeys, parentKey) THEN result
    ELSE serializeLoop(result, document, 1, parentKey, maxDepth, excludeSubkeys)

\* The i-th and later iterations of the `for (var key in document)` loop.
serializeLoop(result, document, i, parentKey, maxDepth, excludeSubkeys) ==
    IF i > NumChildren(document) THEN result
    ELSE
      LET value == ChildVal(document, i)
          key == IF document.k = "array"
                 THEN <<arrayEscape \o ChildKey(document, i)[1] \o arrayEscape>>
                 ELSE ChildKey(document, i)
          r1 == Put(result, parentKey \o key, value)
          r2 == IF isHash(value) /\ maxDepth > 1
                THEN serialize(r1, value, parentKey \o key, maxDepth - 1, excludeSubkeys)
                ELSE r1
      IN serializeLoop(r2, document, i + 1, parentKey, maxDepth, excludeSubkeys)

serializeDoc(doc, maxDepth, excludeSubkeys) ==
    serialize(EmptyObject, Obj(doc), <<>>, maxDepth, excludeSubkeys)

RECURSIVE analyseDocumentLoop(_, _, _)
analyseDocumentLoop(result, document, i) ==
    IF i > Len(document) THEN result
    ELSE
      LET key == normalizeFlatKey(document[i].key)
          r1 == IF Has(result, key) THEN result ELSE Put(result, key, EmptyObject)
          type == varietyTypeOf(document[i].val)
      IN analyseDocumentLoop(Put(r1, key, Put(Get(r1, key), type, [mark |-> TRUE])),
                             document, i + 1)

\* analyseDocument(document): path -> {type: true}
analyseDocument(document) == analyseDocumentLoop(EmptyObject, document, 1)

\* A variant of countTypes that seeds a type it has already counted with 1.
RECURSIVE countTypesReseeding(_, _, _)
countTypesReseeding(types, docTypes, i) ==
    IF i > Len(docTypes) THEN types
    ELSE countTypesReseeding(Put(types, docTypes[i].key, 1), docTypes, i + 1)

\* `types` after the loop `for (var type in docResult[key])` over docTypes.
RECURSIVE countTypes(_, _, _)
countTypes(types, docTypes, i) ==
    IF i > Len(docTypes) THEN types
    ELSE LET type == docTypes[i].key
         IN countTypes(IF Has(types, type)
                       THEN Put(types, type, Get(types, type) + 1)
                       ELSE Put(types, type, 1),
                       docTypes, i + 1)

RECURSIVE mergeDocumentLoop(_, _, _)
mergeDocumentLoop(docRes, interim, i) ==
    IF i > Len(docRes) THEN interim
    ELSE
      LET key == docRes[i].key
      IN IF Has(interim, key)
         THEN LET existing == Get(interim, key)
              IN mergeDocumentLoop(docRes,
                    Put(interim, key,
                        [existing EXCEPT
                           !.types = countTypes(existing.types, docRes[i].val, 1),
                           !.totalOccurrences = existing.totalOccurrences + 1]),
                    i + 1)
         ELSE mergeDocumentLoop(docRes,
                    Put(interim, key,
                        [types |-> countTypes(EmptyObject, docRes[i].val, 1),
                         totalOccurrences |-> 1]),
                    i + 1)

\* mergeDocument(docResult, interimResults): the accumulator after the call.
mergeDocument(docRes, interim) == mergeDocumentLoop(docRes, interim, 1)

\* reduceDocuments(accumulator, object) for the resolved configuration cfg.
reduceDocuments(accumulator, object, cfg) ==
    mergeDocument(analyseDocument(serializeDoc(object, cfg.maxDepth, cfg.excludeSubkeys)),
                  accumulator)

-----------------------------------------------------------------------------
(* The shape-preserving pipeline: serializeDocterark,                      *)
(* analyseDocumentterark, mergeDocumentterark.                             *)
(*                                                                         *)
(* A per-path type map is an ordered map from type tag to a marker:        *)
(* [mark |-> TRUE] for `true`, [tree |-> t] for a nested tree t, which is  *)
(* an ordered map from field name to type map.                             *)

RECURSIVE serializeterark(_, _, _)
serializeterark(result, document, i) ==
    IF i > Len(document) THEN result
    ELSE serializeterark(Put(result, document[i].key, document[i].val), document, i + 1)

\* serializeDocterark(doc, maxDepth): the own top-level fields, verbatim.
serializeDocterark(doc) == serializeterark(EmptyObject, doc, 1)

\* serializeAValue(value, maxDepth, pararesult), from the i-th key of `value`
\* on: the content of pararesult after the call.
RECURSIVE serializeAValue(_, _, _, _)
serializeAValue(value, i, maxDepth, pararesult) ==
    IF i > NumChildren(value) THEN pararesult
    ELSE
      LET key == ChildKey(value, i)
          tempv == ChildVal(value, i)
          type == varietyTypeOf(tempv)
          entry == IF type = "Object" /\ maxDepth > 1
                   THEN Put(EmptyObject, type,
                            [tree |-> serializeAValue(tempv, 1, maxDepth - 1, EmptyObject)])
                   ELSE Put(EmptyObject, type, [mark |-> TRUE])
      IN serializeAValue(value, i + 1, maxDepth, Put(pararesult, key, entry))

\* The loop of analyseDocumentterark over the fields of `document`, from the
\* i-th on.  st.result holds, for an Object field, a reference to the one
\* object `recurresult` ([shared |-> TRUE]); st.recurresult is its content.
RECURSIVE analyseterarkLoop(_, _, _, _)
analyseterarkLoop(st, document, i, maxDepth) ==
    IF i > Len(document) THEN st
    ELSE
      LET value == document[i].val
          key == normalizeShapeKey(document[i].key)
          r1 == IF Has(st.result, key) THEN st.result
                ELSE Put(st.result, key, EmptyObject)
          type == varietyTypeOf(value)
      IN IF type = "Object"
         THEN analyseterarkLoop(
                [result |-> Put(r1, key, Put(Get(r1, key), type, [shared |-> TRUE])),
                 recurresult |-> serializeAValue(value, 1, maxDepth, st.recurresult)],
                document, i + 1, maxDepth)
         ELSE analyseterarkLoop(
                [result |-> Put(r1, key, Put(Get(r1, key), type, [mark |-> TRUE])),
                 recurresult |-> st.recurresult],
                document, i + 1, maxDepth)

\* What a type map denotes once the loop is over: every reference to
\* `recurresult` shows the final content of that one object.
derefTypes(typeMap, recurresult) ==
    [j \in 1..Len(typeMap) |->
        IF "shared" \in DOMAIN typeMap[j].val
        THEN [key |-> typeMap[j].key, val |-> [tree |-> recurresult]]
        ELSE typeMap[j]]

\* analyseDocumentterark(document, maxDepth)
analyseDocumentterark(document, maxDepth) ==
    LET st == analyseterarkLoop([result |-> EmptyObject, recurresult |-> EmptyObject],
                                document, 1, maxDepth)
    IN [i \in 1..Len(st.result) |->
           [key |-> st.result[i].key,
            val |-> derefTypes(st.result[i].val, st.recurresult)]]

\* A variant of newEntryterark that never stores the shape of the document.
newEntryterarkNoValue(value) ==
    [types |-> countTypes(EmptyObject, value, 1), totalOccurrences |-> 1]

\* The entry mergeDocumentterark creates for a path it sees for the first time.
newEntryterark(value) ==
    LET types == countTypes(EmptyObject, value, 1)
        temp == ObjectKeys(value)
    IN IF JoinComma(temp) = "Object"
       THEN [types |-> types, totalOccurrences |-> 1, value |-> value]
       ELSE [types |-> types, totalOccurrences |-> 1]

\* A variant of updateEntryterark that stores the shape of every document that
\* presents the path as a lone Object.
updateEntryterarkOverwriting(existing, value) ==
    IF JoinComma(ObjectKeys(value)) = "Object"
    THEN [types |-> countTypes(existing.types, value, 1),
          totalOccurrences |-> existing.totalOccurrences + 1,
          value |-> value]
    ELSE [existing EXCEPT !.types = countTypes(existing.types, value, 1),
                          !.totalOccurrences = existing.totalOccurrences + 1]

\* The entry mergeDocumentterark leaves for a path it has seen before.
updateEntryterark(existing, value) ==
    [existing EXCEPT !.types = countTypes(existing.types, value, 1),
                     !.totalOccurrences = existing.totalOccurrences + 1]

RECURSIVE mergeDocumentterarkLoop(_, _, _)
mergeDocumentterarkLoop(docRes, interim, i) ==
    IF i > Len(docRes) THEN interim
    ELSE
      LET key == docRes[i].key
      IN IF Has(interim, key)
         THEN mergeDocumentterarkLoop(docRes,
                 Put(interim, key, updateEntryterark(Get(interim, key), docRes[i].val)),
                 i + 1)
         ELSE mergeDocumentterarkLoop(docRes,
                 Put(interim, key, newEntryterark(docRes[i].val)), i + 1)

\* mergeDocumentterark(docResultstrc, interimResultsstrc)
mergeDocumentterark(docRes, interim) == mergeDocumentterarkLoop(docRes, interim, 1)

-----------------------------------------------------------------------------
(* convertSchema.                                                          *)

\* The table of getKeyType; a tag it lacks reads as undefined.
getKeyType(type) ==
    CASE type = "ObjectId"    -> "Fixed"
      [] type = "Boolean"     -> "Uint08"
      [] type = "Number"      -> "Sint32"
      [] type = "NumberLong"  -> "Sint64"
      [] type = "Double"      -> "Float64"
      [] type = "Date"        -> "Sint64"
      [] type = "Timestamp"   -> "Sint64"
      [] type = "BinData"     -> "CarBin"
      [] type = "Array"       -> "CarBin"
      [] type = "Object"      -> "CarBin"
      [] type = "Regex"       -> "TwoStrZero"
      [] type = "String"      -> "StrZero"
      [] type = "undefined"   -> "Binary"
      [] type = "Null"        -> ""
      [] type = "DBPointer"   -> "StrZero"
      [] type = "JavaScript"  -> "StrZero"
      [] type = "Symbol"      -> "StrZero"
      [] type = "JSWithScope" -> "StrZero"
      [] type = "MinKey"      -> ""
      [] type = "MaxKey"      -> ""
      [] OTHER                -> Undefined

\* The table of getMongoType.
getMongoType(type) ==
    CASE type = "ObjectId"    -> "oid"
      [] type = "Boolean"     -> "bool"
      [] type = "Number"      -> "int"
      [] type = "NumberLong"  -> "long"
      [] type = "Double"      -> "double"
      [] type = "Date"        -> "date"
      [] type = "Timestamp"   -> "timestamp"
      [] type = "BinData"     -> "bindata"
      [] type = "Array"       -> "array"
      [] type = "Object"      -> "object"
      [] type = "Regex"       -> "regex"
      [] type = "String"      -> "string"
      [] type = "DBPointer"   -> "string"
      [] type = "JavaScript"  -> "string"
      [] type = "Symbol"      -> "string"
      [] type = "JSWithScope" -> "string"
      [] OTHER                -> Undefined

Sentinel == <<"$$">>

SentinelColumn == [type |-> "CarBin"]

\* The column serializeCValue writes for one nested field whose type map is
\* tempv; `sub` is the nested tree of the field when its type is Object.
nestedColumn(tempv, sub) ==
    LET type == JoinComma(ObjectKeys(tempv))
    IN IF type = "Object"
       THEN [type |-> getKeyType(type), mongoType |-> getMongoType(type), nested |-> sub]
       ELSE [type |-> getKeyType(type), mongoType |-> getMongoType(type)]

\* serializeCValue(value, pararesult): the content of pararesult["nested"]
\* after the call, built from the i-th key of `value` on into `nested`.
\* `value` is a marker: a tree is walked, `true` has no keys.
RECURSIVE serializeCValue(_, _, _)
serializeCValue(value, i, nested) ==
    LET tree == IF "tree" \in DOMAIN value THEN value.tree ELSE <<>>
    IN IF i > Len(tree) THEN nested
       ELSE
         LET key == tree[i].key
             tempv == tree[i].val
             sub == IF Has(tempv, "Object")
                    THEN serializeCValue(Get(tempv, "Object"), 1, EmptyObject)
                    ELSE EmptyObject
         IN serializeCValue(value, i + 1, Put(nested, key, nestedColumn(tempv, sub)))

\* The column of a key that every document holds.
presentColumn(entry, typeKeys) ==
    IF typeKeys = "ObjectId"
    THEN [type |-> getKeyType(typeKeys), length |-> 12, mongoType |-> getMongoType(typeKeys)]
    ELSE IF typeKeys = "Object"
    THEN [type |-> getKeyType(typeKeys), mongoType |-> getMongoType(typeKeys),
          nested |-> serializeCValue(Get(entry.value, "Object"), 1, EmptyObject)]
    ELSE [type |-> getKeyType(typeKeys), mongoType |-> getMongoType(typeKeys)]

\* A variant of sparseEntry that forgets the terminal column.
sparseEntryNoSentinel(entry) ==
    [columns |-> serializeCValue(Get(entry.value, "Object"), 1, EmptyObject)]

\* The NestedSchemaSet entry of a sole-Object key that some document lacks.
sparseEntry(entry) ==
    [columns |-> Put(serializeCValue(Get(entry.value, "Object"), 1, EmptyObject),
                     Sentinel, SentinelColumn)]

\* The loop of convertSchema over the aggregate, from the i-th entry on.
\* st = [threw, columns, nestedschemaset, nestedindex]; reading
\* entry["value"]['Object'] of an entry without `value` throws a TypeError.
RECURSIVE convertSchemaLoop(_, _, _, _)
convertSchemaLoop(st, interim, i, documentsCount) ==
    IF i > Len(interim) \/ st.threw THEN st
    ELSE
      LET key == interim[i].key
          entry == interim[i].val
          typeKeys == JoinComma(ObjectKeys(entry.types))
      IN IF typeKeys = "Object" /\ "value" \notin DOMAIN entry
         THEN [st EXCEPT !.threw = TRUE]
         ELSE IF entry.totalOccurrences = documentsCount
         THEN convertSchemaLoop(
                [st EXCEPT !.columns = Put(st.columns, key, presentColumn(entry, typeKeys))],
                interim, i + 1, documentsCount)
         ELSE IF typeKeys = "Object"
         THEN convertSchemaLoop(
                [st EXCEPT !.nestedschemaset =
                               Put(st.nestedschemaset, ToString(st.nestedindex),
                                   sparseEntry(entry)),
                           !.nestedindex = st.nestedindex + 1],
                interim, i + 1, documentsCount)
         ELSE convertSchemaLoop(st, interim, i + 1, documentsCount)

\* A variant of convertSchema that takes a key for wholly present when one
\* document lacks it.
convertSchemaOffByOne(interim, documentsCount, sink) ==
    LET st == convertSchemaLoop([threw |-> FALSE, columns |-> EmptyObject,
                                 nestedschemaset |-> sink, nestedindex |-> 1],
                                interim, 1, documentsCount - 1)
    IN [threw |-> st.threw,
        columns |-> IF st.threw THEN st.columns
                    ELSE Put(st.columns, Sentinel, SentinelColumn),
        nestedschemaset |-> st.nestedschemaset]

\* convertSchema(interimResultsstrc, documentsCount, nestedschemaset, interimResults):
\* [threw, columns, nestedschemaset]; the fourth argument is never read.
convertSchema(interim, documentsCount, sink) ==
    LET st == convertSchemaLoop([threw |-> FALSE, columns |-> EmptyObject,
                                 nestedschemaset |-> sink, nestedindex |-> 1],
                                interim, 1, documentsCount)
    IN [threw |-> st.threw,
        columns |-> IF st.threw THEN st.columns
                    ELSE Put(st.columns, Sentinel, SentinelColumn),
        nestedschemaset |-> st.nestedschemaset]

-----------------------------------------------------------------------------
(* generateIndex.  A source index is [name, key, unique]: key is the       *)
(* sequence of [field, dir] of its key pattern, dir the direction as the   *)
(* property name it is looked up by ("1", "-1") or a string ("hashed",     *)
(* "2dsphere"); unique, when the index has it, is "true", "false" or       *)
(* another value ("1").                                                    *)

\* choice[upordown]
choice(upordown) ==
    CASE upordown = "1"  -> ""
      [] upordown = "-1" -> "-"
      [] OTHER           -> Undefined

\* `part` after the loop over the fields of the key pattern.
RECURSIVE indexPart(_, _)
indexPart(key, i) ==
    IF i > Len(key) THEN <<>>
    ELSE LET upordown == key[i].dir
         IN <<IF upordown = "hashed" THEN key[i].field
              ELSE choice(upordown) \o key[i].field>> \o indexPart(key, i + 1)

\* A variant of indexOrdered in which a later field that is not hashed sets
\* `ordered` back to true.
indexOrderedLastField(key) == key[Len(key)].dir # "hashed"

\* `ordered` after the loop: cleared by a hashed field.
indexOrdered(key) == ~\E i \in 1..Len(key) : key[i].dir = "hashed"

\* The descriptor generateIndex pushes for one source index.
indexDescriptor(index) ==
    IF "_id_" # index.name
    THEN [fields |-> JoinComma(indexPart(index.key, 1)),
          ordered |-> indexOrdered(index.key),
          unique |-> IF "unique" \in DOMAIN index /\ index.unique = "true"
                     THEN TRUE ELSE FALSE]
    ELSE [fields |-> "_id", ordered |-> TRUE, unique |-> TRUE]

generateIndex(oi) == [i \in 1..Len(oi) |-> indexDescriptor(oi[i])]

-----------------------------------------------------------------------------
(* The environment: server, caller options, documents, indexes.            *)

dbName == "test"                      \* db.getName()

DbNames == <<"other", "test">>        \* the databases a server may hold

\* db.getSisterDB(name).getCollectionNames()
getCollectionNames(srv, name) ==
    IF name \in DOMAIN srv /\ srv[name] = "full"
    THEN (IF name = dbName THEN <<"users">> ELSE <<"logs">>)
    ELSE <<>>

\* db.adminCommand('listDatabases').databases of an authorized caller; an
\* unauthorized caller gets a response without the `databases` key.
knownDatabases(srv) == SelectSeq(DbNames, LAMBDA n : srv[n] # "absent")

\* `read(name, defaultValue)` of readConfig: an option the caller did not
\* supply is absent from the option bag.
read(configProvider, name, defaultValue) ==
    IF name \in DOMAIN configProvider THEN configProvider[name] ELSE defaultValue

\* readConfig(this): the options the model follows.  excludeSubkeys becomes
\* the set of its items, each with a trailing dot (a parentKey).
readConfig(configProvider, count) ==
    LET excludeSubkeys == read(configProvider, "excludeSubkeys", <<>>)
    IN [collection |-> read(configProvider, "collection", "null"),
        limit |-> read(configProvider, "limit", count),
        maxDepth |-> read(configProvider, "maxDepth", 99),
        excludeSubkeys |-> {excludeSubkeys[i] : i \in 1..Len(excludeSubkeys)}]

NoConfig == [unset |-> TRUE]
NoThrowValue == [kind |-> NoThrow]
NoOutputValue == [kind |-> NoOutput]

\* The documents the two cursors deliver: find(query).sort(sort).limit(limit)
\* over `coll`, which stands for the sorted matches of the query.
Scanned(docs, cfg) ==
    IF cfg.limit < Len(docs) THEN SubSeq(docs, 1, cfg.limit) ELSE docs

-----------------------------------------------------------------------------
(* Bounds and input sets.                                                  *)

MaxDocs == 2            \* documents of a collection in the scan specification
MaxRunDocs == 2         \* documents of a collection in the whole-run specification
MaxDepthArg == 3        \* largest maxDepth a caller supplies
MaxIndexes == 2         \* indexes of a collection in the index specification

Str == Prim("string")
Num == Prim("number")
Oid == Prim("oid")

\* Sequences over S of length lo..hi.
SeqsOf(S, lo, hi) == UNION {[1..n -> S] : n \in lo..hi}

\* Top-level values of key "a" and of key "b" in the scan specification.
ValuesA ==
    {Str, Oid,
     Obj(<<Field(<<"x">>, Num)>>),
     Obj(<<Field(<<"y">>, Oid)>>),
     Obj(<<Field(<<"x">>, Obj(<<Field(<<"w">>, Oid)>>)), Field(<<"v">>, Str)>>)}

ValuesB ==
    {Str,
     Obj(<<Field(<<"x">>, Str), Field(<<"z">>, Oid)>>),
     Arr(<<Num, Str>>)}

\* A document holds "a", "b", or "a" and then "b" (an Object, or an Array
\* after a String); two more documents hold keys that differ in a digit
\* segment only.
Docs ==
    {<<Field(<<"a">>, va)>> : va \in ValuesA}
    \cup {<<Field(<<"b">>, vb)>> : vb \in ValuesB}
    \cup {<<Field(<<"a">>, va),
            Field(<<"b">>, Obj(<<Field(<<"x">>, Str), Field(<<"z">>, Oid)>>))>> :
              va \in ValuesA}
    \cup {<<Field(<<"a">>, Str), Field(<<"b">>, Arr(<<Num, Str>>))>>}
    \cup {<<Field(<<"c", "0">>, Str), Field(<<"c", "1">>, Obj(<<Field(<<"x">>, Num)>>))>>,
          <<Field(<<"c", "0">>, Obj(<<Field(<<"y">>, Oid)>>)),
            Field(<<"c", "1">>, Obj(<<Field(<<"x">>, Num)>>))>>}

Collections == SeqsOf(Docs, 1, MaxDocs)

\* Values of key "a" in the single-document specification: nested objects
\* and arrays of up to MaxOrdinal + 1 elements, arrays of arrays included.
Inner == Obj(<<Field(<<"b">>, Obj(<<Field(<<"c">>, Num)>>)), Field(<<"bb">>, Str)>>)

Elements == {Num, Str, Inner, Arr(<<Inner>>), Arr(<<Arr(<<Inner>>)>>)}

DeepValues ==
    {Inner, Obj(<<Field(<<"b">>, Num)>>),
     Obj(<<Field(<<"x">>, Obj(<<Field(<<"w">>, Obj(<<Field(<<"u">>, Oid)>>))>>))>>)}
    \cup {Arr(e) : e \in SeqsOf(Elements, 1, MaxOrdinal + 1)}

DeepDocs ==
    {<<Field(<<"a">>, v)>> : v \in DeepValues}
    \cup {<<Field(<<"a">>, Inner), Field(<<"b">>, v)>> : v \in ValuesB}
    \cup {<<Field(<<"c", "0">>, Str), Field(<<"c", "1">>, Inner)>>}

\* excludeSubkeys lists a caller supplies.
ExcludeLists ==
    {<< <<"a", "b">> >>, << <<"a">> >>, << <<"a", "b", "c">>, <<"b">> >>}

DeepArgs ==
    {[collection |-> "users"]}
    \cup {[collection |-> "users", maxDepth |-> d] : d \in 1..MaxDepthArg}
    \cup {[collection |-> "users", excludeSubkeys |-> ex] : ex \in ExcludeLists}
    \cup {[collection |-> "users", maxDepth |-> d, excludeSubkeys |-> ex] :
             d \in 1..MaxDepthArg, ex \in ExcludeLists}

\* The whole-run specification: few documents, every outcome of validation.
RunDocs ==
    {<<Field(<<"a">>, Str)>>,
     <<Field(<<"a">>, Obj(<<Field(<<"x">>, Num)>>)), Field(<<"b">>, Oid)>>}

RunColls == SeqsOf(RunDocs, 0, MaxRunDocs)

RunArgs == {<<>>, [collection |-> "users"], [collection |-> "users", limit |-> 1]}

\* Source indexes.
IndexKeys ==
    LET Dirs == {"1", "-1", "hashed"}
    IN {<<[field |-> "a", dir |-> d]>> : d \in Dirs}
       \cup {<<[field |-> "b", dir |-> d1], [field |-> "a", dir |-> d2]>> :
                d1 \in Dirs, d2 \in Dirs}
       \cup {<<[field |-> "loc", dir |-> "2dsphere"]>>}

IndexSet ==
    {[name |-> "a_1", key |-> k, unique |-> u] : k \in IndexKeys, u \in {"true", "1"}}
    \cup {[name |-> n, key |-> k] : n \in {"_id_", "a_1"}, k \in IndexKeys}

IndexLists == SeqsOf(IndexSet, 0, MaxIndexes)

RunIndexLists ==
    {<<>>,
     <<[name |-> "_id_", key |-> <<[field |-> "_id", dir |-> "1"]>>]>>,
     <<[name |-> "_id_", key |-> <<[field |-> "_id", dir |-> "1"]>>],
       [name |-> "a_1", key |-> <<[field |-> "a", dir |-> "-1"]>>, unique |-> "true"]>>}

-----------------------------------------------------------------------------
(* The script, top to bottom.                                              *)

\* A variant of lines 30-50 that makes the database checks without looking at
\* whether a database list came back.
ListDatabasesUnguarded ==
    /\ pc = "listDatabases"
    /\ LET known == knownDatabases(server)
           dbs == SelectSeq(known, LAMBDA d : Len(getCollectionNames(server, d)) > 0)
           emptyDbs == SelectSeq(known, LAMBDA d : Len(getCollectionNames(server, d)) = 0)
       IN IF \E i \in 1..Len(emptyDbs) : emptyDbs[i] = dbName
          THEN /\ thrown' = [kind |-> "database is empty", options |-> dbs]
               /\ pc' = "aborted"
          ELSE IF ~\E i \in 1..Len(dbs) : dbs[i] = dbName
          THEN /\ thrown' = [kind |-> "database does not exist", options |-> dbs]
               /\ pc' = "aborted"
          ELSE /\ thrown' = thrown
               /\ pc' = "collection"
    /\ UNCHANGED <<args, authorized, server, coll, indexes, config, cursorOpen,
                   cursorPos, cursorterarkPos, interimResults, interimResultsterark,
                   flattened, docResult, docResultterark, columns, nestedschemaset,
                   originalindex, tableindex, printed>>

\* Lines 30-50: the database checks, made only with a database list.
ListDatabases ==
    /\ pc = "listDatabases"
    /\ LET known == knownDatabases(server)
           dbs == SelectSeq(known, LAMBDA d : Len(getCollectionNames(server, d)) > 0)
           emptyDbs == SelectSeq(known, LAMBDA d : Len(getCollectionNames(server, d)) = 0)
       IN IF authorized /\ \E i \in 1..Len(emptyDbs) : emptyDbs[i] = dbName
          THEN /\ thrown' = [kind |-> "database is empty", options |-> dbs]
               /\ pc' = "aborted"
          ELSE IF authorized /\ ~\E i \in 1..Len(dbs) : dbs[i] = dbName
          THEN /\ thrown' = [kind |-> "database does not exist", options |-> dbs]
               /\ pc' = "aborted"
          ELSE /\ thrown' = thrown
               /\ pc' = "collection"
    /\ UNCHANGED <<args, authorized, server, coll, indexes, config, cursorOpen,
                   cursorPos, cursorterarkPos, interimResults, interimResultsterark,
                   flattened, docResult, docResultterark, columns, nestedschemaset,
                   originalindex, tableindex, printed>>

\* Lines 52-57: the `collection` variable must be supplied.
CheckCollection ==
    /\ pc = "collection"
    /\ IF "collection" \notin DOMAIN args
       THEN /\ thrown' = [kind |-> "collection not supplied",
                          options |-> getCollectionNames(server, dbName)]
            /\ pc' = "aborted"
       ELSE /\ thrown' = thrown
            /\ pc' = "count"
    /\ UNCHANGED <<args, authorized, server, coll, indexes, config, cursorOpen,
                   cursorPos, cursorterarkPos, interimResults, interimResultsterark,
                   flattened, docResult, docResultterark, columns, nestedschemaset,
                   originalindex, tableindex, printed>>

\* A variant of lines 59-62 that lets an empty collection through.
CheckCountNoThrow ==
    /\ pc = "count"
    /\ thrown' = thrown
    /\ pc' = "readConfig"
    /\ UNCHANGED <<args, authorized, server, coll, indexes, config, cursorOpen,
                   cursorPos, cursorterarkPos, interimResults, interimResultsterark,
                   flattened, docResult, docResultterark, columns, nestedschemaset,
                   originalindex, tableindex, printed>>

\* Lines 59-62: the collection must hold a document.
CheckCount ==
    /\ pc = "count"
    /\ IF Len(coll) = 0
       THEN /\ thrown' = [kind |-> "collection does not exist or is empty",
                          options |-> getCollectionNames(server, dbName)]
            /\ pc' = "aborted"
       ELSE /\ thrown' = thrown
            /\ pc' = "readConfig"
    /\ UNCHANGED <<args, authorized, server, coll, indexes, config, cursorOpen,
                   cursorPos, cursorterarkPos, interimResults, interimResultsterark,
                   flattened, docResult, docResultterark, columns, nestedschemaset,
                   originalindex, tableindex, printed>>

\* Lines 64-135: the configuration; no plugin is configured.
ReadConfig ==
    /\ pc = "readConfig"
    /\ config' = readConfig(args, Len(coll))
    /\ pc' = "cursors"
    /\ UNCHANGED <<args, authorized, server, coll, indexes, thrown, cursorOpen,
                   cursorPos, cursorterarkPos, interimResults, interimResultsterark,
                   flattened, docResult, docResultterark, columns, nestedschemaset,
                   originalindex, tableindex, printed>>

\* Lines 518-519: the two cursors.
OpenCursors ==
    /\ pc = "cursors"
    /\ cursorOpen' = TRUE
    /\ pc' = "scan"
    /\ UNCHANGED <<args, authorized, server, coll, indexes, thrown, config,
                   cursorPos, cursorterarkPos, interimResults, interimResultsterark,
                   flattened, docResult, docResultterark, columns, nestedschemaset,
                   originalindex, tableindex, printed>>

\* Line 521: one callback of cursor.reduce(reduceDocuments, {}).
ReduceDocuments ==
    /\ pc = "scan"
    /\ cursorPos < Len(Scanned(coll, config))
    /\ LET object == Scanned(coll, config)[cursorPos + 1]
           flat == serializeDoc(object, config.maxDepth, config.excludeSubkeys)
           res == analyseDocument(flat)
       IN /\ flattened' = flat
          /\ docResult' = res
          /\ interimResults' = mergeDocument(res, interimResults)
    /\ cursorPos' = cursorPos + 1
    /\ UNCHANGED <<args, authorized, server, coll, indexes, pc, thrown, config,
                   cursorOpen, cursorterarkPos, interimResultsterark,
                   docResultterark, columns, nestedschemaset, originalindex,
                   tableindex, printed>>

\* Line 522: one callback of cursorterark.reduce(reduceDocumentsterark, {}).
ReduceDocumentsterark ==
    /\ pc = "scan"
    /\ cursorPos = Len(Scanned(coll, config))
    /\ cursorterarkPos < Len(Scanned(coll, config))
    /\ LET object == Scanned(coll, config)[cursorterarkPos + 1]
           res == analyseDocumentterark(serializeDocterark(object), config.maxDepth)
       IN /\ docResultterark' = res
          /\ interimResultsterark' = mergeDocumentterark(res, interimResultsterark)
    /\ cursorterarkPos' = cursorterarkPos + 1
    /\ UNCHANGED <<args, authorized, server, coll, indexes, pc, thrown, config,
                   cursorOpen, cursorPos, interimResults, flattened, docResult, columns,
                   nestedschemaset, originalindex, tableindex, printed>>

\* Lines 527-528: convertSchema over the shape-preserving aggregate, with
\* cursorterark.size() as the document count.
ConvertSchema ==
    /\ pc = "scan"
    /\ cursorPos = Len(Scanned(coll, config))
    /\ cursorterarkPos = Len(Scanned(coll, config))
    /\ LET res == convertSchema(interimResultsterark, Len(Scanned(coll, config)),
                                EmptyObject)
       IN IF res.threw
          THEN /\ thrown' = [kind |-> "TypeError", options |-> <<>>]
               /\ pc' = "aborted"
               /\ UNCHANGED <<columns, nestedschemaset>>
          ELSE /\ columns' = res.columns
               /\ nestedschemaset' = res.nestedschemaset
               /\ pc' = "index"
               /\ thrown' = thrown
    /\ UNCHANGED <<args, authorized, server, coll, indexes, config, cursorOpen,
                   cursorPos, cursorterarkPos, interimResults, interimResultsterark,
                   flattened, docResult, docResultterark, originalindex, tableindex, printed>>

\* Lines 532-574: the index list and its translation.
GenerateIndex ==
    /\ pc = "index"
    /\ originalindex' = indexes
    /\ tableindex' = generateIndex(indexes)
    /\ pc' = "assemble"
    /\ UNCHANGED <<args, authorized, server, coll, indexes, thrown, config,
                   cursorOpen, cursorPos, cursorterarkPos, interimResults,
                   interimResultsterark, flattened, docResult, docResultterark, columns,
                   nestedschemaset, printed>>

\* The Result Document of lines 581-591.
Results(cols, tindex, nss) ==
    IF Len(tindex) > 0 /\ Len(nss) > 0
    THEN [CheckMongoType |-> TRUE, RowSchema |-> cols, TableIndex |-> tindex,
          NestedSchemaSet |-> nss]
    ELSE IF Len(tindex) > 0
    THEN [CheckMongoType |-> TRUE, RowSchema |-> cols, TableIndex |-> tindex]
    ELSE IF Len(nss) > 0
    THEN [CheckMongoType |-> TRUE, RowSchema |-> cols, NestedSchemaSet |-> nss]
    ELSE [CheckMongoType |-> TRUE, RowSchema |-> cols]

\* Lines 581-593: the Result Document is printed.
PrintResults ==
    /\ pc = "assemble"
    /\ printed' = Results(columns, tableindex, nestedschemaset)
    /\ pc' = "done"
    /\ UNCHANGED <<args, authorized, server, coll, indexes, thrown, config,
                   cursorOpen, cursorPos, cursorterarkPos, interimResults,
                   interimResultsterark, flattened, docResult, docResultterark, columns,
                   nestedschemaset, originalindex, tableindex>>

-----------------------------------------------------------------------------
(* Specifications.                                                         *)

\* The state at the top of the script.
Start(a, auth, srv, docs, ixs) ==
    /\ args = a
    /\ authorized = auth
    /\ server = srv
    /\ coll = docs
    /\ indexes = ixs
    /\ pc = "listDatabases"
    /\ thrown = NoThrowValue
    /\ config = NoConfig
    /\ cursorOpen = FALSE
    /\ cursorPos = 0
    /\ cursorterarkPos = 0
    /\ interimResults = EmptyObject
    /\ interimResultsterark = EmptyObject
    /\ flattened = EmptyObject
    /\ docResult = EmptyObject
    /\ docResultterark = EmptyObject
    /\ columns = EmptyObject
    /\ nestedschemaset = EmptyObject
    /\ originalindex = <<>>
    /\ tableindex = <<>>
    /\ printed = NoOutputValue

\* The state after validation, configuration and the creation of the
\* cursors, for a caller whose target exists and holds `docs`.
Validated(a, docs, ixs) ==
    /\ args = a
    /\ authorized = TRUE
    /\ server = [n \in {"other", "test"} |-> IF n = dbName THEN "full" ELSE "absent"]
    /\ coll = docs
    /\ indexes = ixs
    /\ pc = "scan"
    /\ thrown = NoThrowValue
    /\ config = readConfig(a, Len(docs))
    /\ cursorOpen = TRUE
    /\ cursorPos = 0
    /\ cursorterarkPos = 0
    /\ interimResults = EmptyObject
    /\ interimResultsterark = EmptyObject
    /\ flattened = EmptyObject
    /\ docResult = EmptyObject
    /\ docResultterark = EmptyObject
    /\ columns = EmptyObject
    /\ nestedschemaset = EmptyObject
    /\ originalindex = <<>>
    /\ tableindex = <<>>
    /\ printed = NoOutputValue

\* The whole run, over every server state and caller.  The documents of
\* db[collection] exist only when the database holds the collection.
Init ==
    \E a \in RunArgs, auth \in BOOLEAN,
       srv \in [{"other", "test"} -> {"absent", "empty", "full"}] :
       \E docs \in (IF srv[dbName] = "full" /\ "collection" \in DOMAIN a
                    THEN RunColls ELSE {<<>>}) :
          \E ixs \in (IF docs = <<>> THEN {<<>>} ELSE RunIndexLists) :
             Start(a, auth, srv, docs, ixs)

Next ==
    \/ ListDatabases
    \/ CheckCollection
    \/ CheckCount
    \/ ReadConfig
    \/ OpenCursors
    \/ ReduceDocuments
    \/ ReduceDocumentsterark
    \/ ConvertSchema
    \/ GenerateIndex
    \/ PrintResults

Spec == Init /\ [][Next]_vars

\* The two scans and the conversion, over collections of the default caller.
InitScan == \E docs \in Collections : Validated([collection |-> "users"], docs, <<>>)

NextScan == ReduceDocuments \/ ReduceDocumentsterark \/ ConvertSchema

SpecScan == InitScan /\ [][NextScan]_vars

\* The two scans of one document, over maxDepth and excludeSubkeys.
InitDeep == \E a \in DeepArgs, doc \in DeepDocs : Validated(a, <<doc>>, <<>>)

SpecDeep == InitDeep /\ [][NextScan]_vars

\* DBQuery.prototype.reduce over the first n documents of the flat cursor
\* and of the shape-preserving cursor: the accumulators after n callbacks.
RECURSIVE reduceFlat(_, _, _)
reduceFlat(docs, n, cfg) ==
    IF n = 0 THEN EmptyObject
    ELSE reduceDocuments(reduceFlat(docs, n - 1, cfg), docs[n], cfg)

reduceDocumentsterark(accumulatorterark, object, cfg) ==
    mergeDocumentterark(analyseDocumentterark(serializeDocterark(object), cfg.maxDepth),
                        accumulatorterark)

RECURSIVE reduceterark(_, _, _)
reduceterark(docs, n, cfg) ==
    IF n = 0 THEN EmptyObject
    ELSE reduceDocumentsterark(reduceterark(docs, n - 1, cfg), docs[n], cfg)

\* The state at line 532, after the scans and the conversion of `docs`.
Converted(a, docs, ixs) ==
    LET cfg == readConfig(a, Len(docs))
        n == Len(docs)
        res == convertSchema(reduceterark(docs, n, cfg), n, EmptyObject)
    IN /\ args = a
       /\ authorized = TRUE
       /\ server = [d \in {"other", "test"} |-> IF d = dbName THEN "full" ELSE "absent"]
       /\ coll = docs
       /\ indexes = ixs
       /\ pc = "index"
       /\ thrown = NoThrowValue
       /\ config = cfg
       /\ cursorOpen = TRUE
       /\ cursorPos = n
       /\ cursorterarkPos = n
       /\ interimResults = reduceFlat(docs, n, cfg)
       /\ interimResultsterark = reduceterark(docs, n, cfg)
       /\ flattened = serializeDoc(docs[n], cfg.maxDepth, cfg.excludeSubkeys)
       /\ docResult = analyseDocument(serializeDoc(docs[n], cfg.maxDepth, cfg.excludeSubkeys))
       /\ docResultterark = analyseDocumentterark(serializeDocterark(docs[n]), cfg.maxDepth)
       /\ columns = res.columns
       /\ nestedschemaset = res.nestedschemaset
       /\ originalindex = <<>>
       /\ tableindex = <<>>
       /\ printed = NoOutputValue

\* The index translation and the printing, over the index lists of a
\* collection of one document.
InitIndex ==
    \E ixs \in IndexLists :
       Converted([collection |-> "users"], <<<<Field(<<"a">>, Str)>>>>, ixs)

NextIndex == GenerateIndex \/ PrintResults

SpecIndex == InitIndex /\ [][NextIndex]_vars

-----------------------------------------------------------------------------
(* Properties.                                                             *)

\* The script is past convertSchema.
AfterConvert == pc \in {"index", "assemble", "done"}

\* cursorterark.size()
DocumentsCount == Len(Scanned(coll, config))

\* The set of type tags an aggregate entry has observed.
TypeSet(entry) == KeySet(entry.types)

\* The keys of the shape-preserving aggregate that some scanned document
\* lacks and whose type set is exactly {Object}, in aggregate order.
SparseObjectKeys ==
    SelectSeq(ObjectKeys(interimResultsterark),
              LAMBDA k : LET e == Get(interimResultsterark, k)
                         IN /\ e.totalOccurrences # DocumentsCount
                            /\ TypeSet(e) = {"Object"})

\* The nested tree an aggregate entry stores for its key.
Snapshot(key) == Get(Get(interimResultsterark, key).value, "Object")

TreeOf(marker) == IF "tree" \in DOMAIN marker THEN marker.tree ELSE <<>>

\* C1.  Presence threshold: a key other than $$ has a RowSchema column iff
\* its totalOccurrences equals the document count; RowSchema has no other
\* column; NestedSchemaSet has exactly one entry per key that some document
\* lacks and whose type set is exactly {Object} (in aggregate order, built
\* from that key's snapshot), hence none for any other key.
C1_PresenceThreshold ==
    AfterConvert =>
      /\ \A key \in KeySet(interimResultsterark) \ {Sentinel} :
            Has(columns, key)
              <=> Get(interimResultsterark, key).totalOccurrences = DocumentsCount
      /\ KeySet(columns) \subseteq KeySet(interimResultsterark) \cup {Sentinel}
      /\ Len(nestedschemaset) = Len(SparseObjectKeys)
      /\ \A j \in 1..Len(nestedschemaset) :
            /\ nestedschemaset[j].key = ToString(j)
            /\ KeySet(nestedschemaset[j].val.columns) \ {Sentinel}
                 = KeySet(TreeOf(Snapshot(SparseObjectKeys[j])))

\* Two documents are converted: one key is in both and has a column, another
\* is an Object in one of them only and has the NestedSchemaSet entry.
C1_Witness ==
    /\ pc = "index"
    /\ DocumentsCount = 2
    /\ Len(nestedschemaset) = 1
    /\ \E key \in KeySet(interimResultsterark) : Has(columns, key)
    /\ \E key \in KeySet(interimResultsterark) :
          /\ ~Has(columns, key)
          /\ Get(interimResultsterark, key).totalOccurrences = 1

\* Every column tree, at every depth, holds $$ with type CarBin.
RECURSIVE AllTreesHaveSentinel(_)
AllTreesHaveSentinel(tree) ==
    /\ Has(tree, Sentinel)
    /\ Get(tree, Sentinel) = SentinelColumn
    /\ \A i \in 1..Len(tree) :
          "nested" \in DOMAIN tree[i].val => AllTreesHaveSentinel(tree[i].val.nested)

RECURSIVE NestedHoldsShapeFields(_, _)
NestedHoldsShapeFields(nested, marker) ==
    /\ ObjectKeys(nested) = ObjectKeys(TreeOf(marker))
    /\ \A i \in 1..Len(nested) :
          "nested" \in DOMAIN nested[i].val =>
              NestedHoldsShapeFields(nested[i].val.nested,
                                     Get(TreeOf(marker)[i].val, "Object"))

Token(f) ==
    CASE f.dir = "hashed" -> f.field
      [] f.dir = "-1"     -> "-" \o f.field
      [] f.dir = "1"      -> f.field

KnownDirections == {"1", "-1", "hashed"}

\* C3.  generateIndex returns one descriptor per source index, in order.  The
\* index named _id_ yields {fields: "_id", ordered: true, unique: true}
\* whatever its key pattern.  For any other index, fields is the comma-join in
\* key order of name (hashed), "-"+name (-1), name (1); ordered is false iff
\* some field is hashed; unique is true iff the unique flag is exactly true.
C3_IndexDescriptors ==
    pc \in {"assemble", "done"} =>
      /\ Len(tableindex) = Len(originalindex)
      /\ \A i \in 1..Len(originalindex) :
            LET index == originalindex[i]
                d == tableindex[i]
            IN IF index.name = "_id_"
               THEN d = [fields |-> "_id", ordered |-> TRUE, unique |-> TRUE]
               ELSE /\ (\A k \in 1..Len(index.key) : index.key[k].dir \in KnownDirections)
                         => d.fields = JoinComma([k \in 1..Len(index.key) |->
                                                      Token(index.key[k])])
                    /\ d.ordered = FALSE
                         <=> \E k \in 1..Len(index.key) : index.key[k].dir = "hashed"
                    /\ d.unique = TRUE
                         <=> ("unique" \in DOMAIN index /\ index.unique = "true")

\* Two indexes are translated: an _id_ index with a hashed key, and another
\* index, unique, with a hashed field followed by a descending one.
C3_Witness ==
    /\ pc = "assemble"
    /\ Len(originalindex) = 2
    /\ originalindex[1].name = "_id_"
    /\ originalindex[1].key[1].dir = "hashed"
    /\ originalindex[2].name # "_id_"
    /\ Len(originalindex[2].key) = 2
    /\ originalindex[2].key[1].dir = "hashed"
    /\ originalindex[2].key[2].dir = "-1"
    /\ "unique" \in DOMAIN originalindex[2] /\ originalindex[2].unique = "true"
    /\ tableindex[2] = [fields |-> "b,-a", ordered |-> FALSE, unique |-> TRUE]

\* One of the validation failures holds of the run.
MustAbort ==
    \/ authorized /\ (dbName \notin DOMAIN server \/ server[dbName] # "full")
    \/ "collection" \notin DOMAIN args
    \/ Len(coll) = 0

\* C4.  Validation precedes scanning and output: in a run whose database is
\* empty or missing (with a database list), whose `collection` is not
\* supplied or whose collection has no document, no cursor is opened, no
\* document is folded and nothing is printed, and once past the checks the
\* run has aborted with a message; an aborted run has printed nothing.
C4_ValidationFirst ==
    /\ MustAbort =>
          /\ ~cursorOpen
          /\ cursorPos = 0 /\ cursorterarkPos = 0
          /\ printed = NoOutputValue
          /\ pc \in {"listDatabases", "collection", "count", "aborted"}
          /\ pc = "aborted" => thrown # NoThrowValue
    /\ pc = "aborted" => printed = NoOutputValue

\* A run against a collection without documents has aborted with the message
\* of the last check.
C4_Witness ==
    /\ pc = "aborted"
    /\ "collection" \in DOMAIN args
    /\ Len(coll) = 0
    /\ thrown.kind = "collection does not exist or is empty"
    /\ ~cursorOpen /\ printed = NoOutputValue

\* C5 as claimed: without a database list the run aborts neither for an empty
\* or missing database nor for an absent `collection`.
C5_UnauthorizedSkipsBoth ==
    ~authorized =>
        \/ thrown = NoThrowValue
        \/ thrown.kind \notin {"database is empty", "database does not exist",
                               "collection not supplied"}

\* C5, amended.  Without a database list only the database checks are
\* skipped: the run never aborts for an empty or missing database, and it
\* still aborts for an absent `collection` and for a collection without
\* documents.
C5_UnauthorizedSkipsDatabaseChecks ==
    ~authorized =>
      /\ thrown # NoThrowValue =>
            thrown.kind \notin {"database is empty", "database does not exist"}
      /\ pc # "listDatabases" =>
            /\ ("collection" \notin DOMAIN args /\ pc # "collection")
                  => pc = "aborted" /\ thrown.kind = "collection not supplied"
            /\ ("collection" \in DOMAIN args /\ Len(coll) = 0
                   /\ pc \notin {"collection", "count"})
                  => pc = "aborted"
                     /\ thrown.kind = "collection does not exist or is empty"

\* A run without a database list, against an empty database and without
\* `collection`, has passed the database checks and aborted at the next one.
C5_Witness ==
    /\ ~authorized
    /\ server[dbName] # "full"
    /\ "collection" \notin DOMAIN args
    /\ pc = "aborted"
    /\ thrown.kind = "collection not supplied"

\* A key with every array-ordinal segment taken out.
StripOrdinals(key) == SelectSeq(key, LAMBDA seg : ~IsOrdinal(seg))

\* p is the start of key, segment by segment.
IsPrefix(p, key) == Len(p) <= Len(key) /\ SubSeq(key, 1, Len(p)) = p

\* C6 as claimed: for every entry p of excludeSubkeys the flattened output of
\* a document holds no path that, with its array ordinals taken out, is p or
\* starts with p followed by a dot.
C6_ExcludedSubtreeOmitted ==
    cursorPos >= 1 =>
        \A p \in config.excludeSubkeys :
            \A key \in KeySet(flattened) : ~IsPrefix(p, StripOrdinals(key))

\* The scanned documents, and the per-document results of the two pipelines.
ScannedDoc(i) == Scanned(coll, config)[i]

PerDocument(i) ==
    analyseDocument(serializeDoc(ScannedDoc(i), config.maxDepth, config.excludeSubkeys))

PerDocumentterark(i) ==
    analyseDocumentterark(serializeDocterark(ScannedDoc(i)), config.maxDepth)

\* The folded documents whose shape-preserving result holds the path, and
\* those that present it as a lone Object.
Holders(key) == {i \in 1..cursorterarkPos : Has(PerDocumentterark(i), key)}

LoneObjectHolders(key) ==
    {i \in Holders(key) : ObjectKeys(Get(PerDocumentterark(i), key)) = <<"Object">>}

Least(S) == CHOOSE i \in S : \A j \in S : i <= j

Greatest(S) == CHOOSE i \in S : \A j \in S : i >= j

RECURSIVE ThreeWayTree(_)
ThreeWayTree(tree) ==
    [i \in 1..Len(tree) |->
        [key |-> tree[i].key,
         val |-> LET typeKeys == JoinComma(ObjectKeys(tree[i].val))
                 IN IF typeKeys = "ObjectId"
                    THEN [type |-> "Fixed", mongoType |-> "oid", length |-> 12]
                    ELSE IF typeKeys = "Object"
                    THEN [type |-> "CarBin", mongoType |-> "object",
                          nested |-> ThreeWayTree(TreeOf(Get(tree[i].val, "Object")))]
                    ELSE [type |-> getKeyType(typeKeys),
                          mongoType |-> getMongoType(typeKeys)]]]

\* C8 as claimed: the nested column tree of an Object column is the
\* three-way rule applied to every nested field at every depth: sole
\* ObjectId gives {Fixed, oid, length 12}, sole Object gives {CarBin, object,
\* nested}, anything else {TypeToEncoding[tag], TypeToDomain[tag]}.
C8_NestedThreeWayRule ==
    AfterConvert =>
        \A i \in 1..Len(columns) :
            "nested" \in DOMAIN columns[i].val =>
                columns[i].val.nested = ThreeWayTree(TreeOf(Snapshot(columns[i].key)))

\* The type tags the folded documents show for a path.
TagsIn(perDocument(_), n, key) ==
    UNION {KeySet(Get(perDocument(i), key)) : i \in {j \in 1..n : Has(perDocument(j), key)}}

\* An aggregate counts n per-document results correctly.
CountsAgree(interim, perDocument(_), n) ==
    LET paths == UNION {KeySet(perDocument(i)) : i \in 1..n}
    IN /\ KeySet(interim) = paths
       /\ \A key \in paths :
             LET entry == Get(interim, key)
                 holders == {i \in 1..n : Has(perDocument(i), key)}
             IN /\ entry.totalOccurrences = Cardinality(holders)
                /\ TypeSet(entry) = TagsIn(perDocument, n, key)
                /\ \A t \in TypeSet(entry) :
                      Get(entry.types, t)
                        = Cardinality({i \in holders : Has(Get(perDocument(i), key), t)})

\* C9.  Counting invariant of both folds: for every path, totalOccurrences is
\* the number of folded documents whose per-document result holds the path,
\* types[t] the number of those whose type set for it holds t; a path no
\* folded document holds has no entry.
C9_CountingInvariant ==
    /\ CountsAgree(interimResults, PerDocument, cursorPos)
    /\ CountsAgree(interimResultsterark, PerDocumentterark, cursorterarkPos)

\* Both folds have taken two documents; a path of the flat aggregate has two
\* types in two documents, and a path of the other is in one document only.
C9_Witness ==
    /\ cursorPos = 2 /\ cursorterarkPos = 2
    /\ \E key \in KeySet(interimResults) :
          LET entry == Get(interimResults, key)
          IN entry.totalOccurrences = 2 /\ Cardinality(TypeSet(entry)) = 2
                /\ \E t \in TypeSet(entry) : Get(entry.types, t) = 2
    /\ \E key \in KeySet(interimResultsterark) :
          Get(interimResultsterark, key).totalOccurrences = 1

\* C10 as claimed: in the per-document result of a document with two or
\* more top-level Object fields (of distinct paths), the tree recorded for
\* each such field holds that field's own sub-fields and no sibling's.
C10_SiblingIsolation ==
    cursorterarkPos >= 1 =>
        LET document == serializeDocterark(ScannedDoc(cursorterarkPos))
            objects == {i \in 1..Len(document) : varietyTypeOf(document[i].val) = "Object"}
        IN (/\ Cardinality(objects) >= 2
            /\ \A i, j \in 1..Len(document) :
                  i # j => normalizeShapeKey(document[i].key)
                             # normalizeShapeKey(document[j].key))
           => \A i \in objects :
                 Get(Get(docResultterark, normalizeShapeKey(document[i].key)), "Object")
                   = [tree |-> serializeAValue(document[i].val, 1, config.maxDepth,
                                               EmptyObject)]

\* The type map the depth rule gives a value under a remaining budget: a
\* nested tree for an Object while the budget exceeds 1, a marker otherwise.
RECURSIVE BudgetedTypes(_, _)
BudgetedTypes(value, budget) ==
    LET type == varietyTypeOf(value)
    IN IF type = "Object" /\ budget > 1
       THEN Put(EmptyObject, type,
                [tree |-> [i \in 1..NumChildren(value) |->
                              [key |-> ChildKey(value, i),
                               val |-> BudgetedTypes(ChildVal(value, i), budget - 1)]]])
       ELSE Put(EmptyObject, type, [mark |-> TRUE])

\* The number of levels of fields a type map describes below its own field.
RECURSIVE LevelsBelow(_)
LevelsBelow(typeMap) ==
    LET below == {IF "tree" \in DOMAIN typeMap[j].val
                  THEN LET t == typeMap[j].val.tree
                       IN IF Len(t) = 0 THEN 0
                          ELSE 1 + Greatest({LevelsBelow(t[k].val) : k \in 1..Len(t)})
                  ELSE 0 : j \in 1..Len(typeMap)}
    IN IF below = {} THEN 0 ELSE Greatest(below)

\* C11 as claimed: in the per-document result of analyseDocumentterark an
\* Object field is expanded only while the remaining budget exceeds 1, the
\* budget being maxDepth at the top level and one less per level; with
\* maxDepth = 1 a top-level Object field records no sub-field, and no field
\* deeper than maxDepth levels below the root is described.
C11_DepthBound ==
    cursorterarkPos >= 1 =>
        LET document == serializeDocterark(ScannedDoc(cursorterarkPos))
            objects == {i \in 1..Len(document) : varietyTypeOf(document[i].val) = "Object"}
            distinct == \A i, j \in 1..Len(document) :
                           i # j => normalizeShapeKey(document[i].key)
                                      # normalizeShapeKey(document[j].key)
        IN /\ (distinct /\ Cardinality(objects) <= 1) =>
                 \A i \in 1..Len(document) :
                    Get(docResultterark, normalizeShapeKey(document[i].key))
                      = BudgetedTypes(document[i].val, config.maxDepth)
           /\ config.maxDepth = 1 =>
                 \A i \in 1..Len(docResultterark) :
                    \A j \in 1..Len(docResultterark[i].val) :
                       "tree" \notin DOMAIN docResultterark[i].val[j].val
           /\ \A i \in 1..Len(docResultterark) :
                 1 + LevelsBelow(docResultterark[i].val) <= config.maxDepth

\* C12.  After any fold of mergeDocumentterark (in particular of documents
\* whose top-level keys are distinct after normalization) every aggregate
\* entry whose type set is exactly {Object} has a `value` of the form
\* {Object: tree}, and convertSchema, which reads it in both branches, never
\* fails on a missing snapshot.
C12_SnapshotPresent ==
    /\ \A key \in KeySet(interimResultsterark) :
          LET entry == Get(interimResultsterark, key)
          IN TypeSet(entry) = {"Object"} =>
                /\ "value" \in DOMAIN entry
                /\ ObjectKeys(entry.value) = <<"Object">>
                /\ "tree" \in DOMAIN Get(entry.value, "Object")
    /\ thrown = NoThrowValue
    /\ pc # "aborted"

\* Two documents with the keys a and b are converted: a is an Object in both
\* and its snapshot is read for the column, b is an Object in one only and
\* its snapshot is read for the NestedSchemaSet entry.
C12_Witness ==
    /\ pc = "index"
    /\ DocumentsCount = 2
    /\ KeySet(interimResultsterark) = {<<"a">>, <<"b">>}
    /\ TypeSet(Get(interimResultsterark, <<"a">>)) = {"Object"}
    /\ TypeSet(Get(interimResultsterark, <<"b">>)) = {"Object"}
    /\ Has(columns, <<"a">>)
    /\ "nested" \in DOMAIN Get(columns, <<"a">>)
    /\ ~Has(columns, <<"b">>)
    /\ Len(nestedschemaset) = 1

=============================================================================
